---- MODULE Spec2Model ----
(***************************************************************************)
(* A model of the D-Type / I-Type archetype quiz: the scoring engine       *)
(* (idix_engine.py), the two Streamlit wizards (D-Type.py, I-Type.py) and  *)
(* the optional spreadsheet logger (data_logger.py).                       *)
(*                                                                         *)
(* Numbers.  The engine computes in floating point.  The model computes    *)
(* the same expressions exactly: a Likert score is a rational              *)
(* [num, den]; a behaviour vector is a tuple of integers in units of       *)
(* 1/Scale; a hybrid score sim - dist is the pair (sim, e) standing for    *)
(* (sim - sqrt(e)) / Scale^2, compared exactly; a percentage is a          *)
(* rational over the number of trials.  Float rounding is not modelled.    *)
(***************************************************************************)
EXTENDS Integers, Sequences, FiniteSets, TLC

VARIABLES
    app,             \* which script runs: "D-Type", "I-Type", or "engine" (no UI)
    questions_file,  \* data/questions.json: "present", "missing" or "unreadable"
    archetypes_file, \* data/archetypes.json: "present", "missing" or "unreadable"
    questions,       \* data/questions.json as loaded: a sequence of question records
    archetypes,      \* data/archetypes.json as loaded: the catalog's names, in dict order
    HAS_LOGGER,      \* I-Type.py: whether the logger module was imported
    step,            \* st.session_state["step"]
    has_results,     \* st.session_state["has_results"]
    open_archetype,  \* st.session_state["open_archetype"]
    ss_answers,      \* st.session_state["answers"]: question index -> slider value
    widgets,         \* the slider widgets' own state: question index -> value
    consent,         \* the consent checkbox (I-Type)
    pc,              \* position of the running handler
    answers,         \* the answers dict handed to normalize_scores
    final_scores,    \* normalize_scores' result
    primary_name,    \* determine_archetype's first result
    archetype_data,  \* determine_archetype's second result
    counts,          \* monte_carlo_probabilities: counts
    trial,           \* monte_carlo_probabilities: completed loop iterations
    bucket,          \* monte_carlo_probabilities: the last trial's (noisy_vec, best_name)
    probs,           \* monte_carlo_probabilities: probs
    stability,       \* monte_carlo_probabilities: stability
    shadow,          \* monte_carlo_probabilities: (shadow_name, shadow_pct)
    log_calls,       \* calls of log_response during the current Calculate press
    log_outcome,     \* how the last call of log_response ended, or "none"
    raised           \* the exception that ended the current script run, or None

envVars  == <<app, questions_file, archetypes_file, questions, archetypes, HAS_LOGGER>>
uiVars   == <<step, has_results, open_archetype, ss_answers, widgets, consent>>
calcVars == <<answers, final_scores, primary_name, archetype_data>>
mcVars   == <<counts, trial, bucket, probs, stability, shadow>>
vars == <<app, questions_file, archetypes_file, questions, archetypes, HAS_LOGGER, step, has_results, open_archetype,
          ss_answers, widgets, consent, pc, answers, final_scores, primary_name,
          archetype_data, counts, trial, bucket, probs, stability, shadow,
          log_calls, log_outcome, raised>>

(***************************************************************************)
(* Bounds of the model.                                                    *)
(***************************************************************************)
\* Longest answers dict handed to normalize_scores in SpecNorm.
MaxAnswers == 2

(***************************************************************************)
(* Python values.                                                          *)
(***************************************************************************)
\* Python's None (a name no catalog uses; distinct from the string "None").
None == "<None>"

\* dict.get(key, default) on a record.
Get(d, key, default) == IF key \in DOMAIN d THEN d[key] ELSE default

\* The empty dict.
EmptyDict == <<>>

(***************************************************************************)
(* Exact rationals standing for Python floats.                             *)
(***************************************************************************)
Rat(n, d) == [num |-> n, den |-> d]
RatEq(a, b) == a.num * b.den = b.num * a.den
RatLe(a, b) == a.num * b.den <= b.num * a.den
RatLt(a, b) == a.num * b.den < b.num * a.den
RatSub(a, b) == Rat(a.num * b.den - b.num * a.den, a.den * b.den)
RatDiv(a, k) == Rat(a.num, a.den * k)
RatOfInt(k) == Rat(k, 1)

RECURSIVE SumSeq(_)
\* Python's sum() of a list.
SumSeq(s) == IF s = <<>> THEN 0 ELSE Head(s) + SumSeq(Tail(s))

(***************************************************************************)
(* idix_engine.py: normalisation of Likert answers.                        *)
(***************************************************************************)
CORE_DIMENSIONS ==
    << "clinical_decision_style", "response_tempo", "risk_orientation",
       "team_communication", "stress_handling", "learning_adaptation" >>

NDims == Len(CORE_DIMENSIONS)

CoreSet == {CORE_DIMENSIONS[i] : i \in 1..NDims}

\* The neutral default of a dimension without items.
Midpoint == Rat(1, 2)

\* The reverse-scoring of one value (faulty variant: an off-by-one mirror, 5 - val).
ReverseValueOffByOne(val) == 5 - val

\* reverse-scoring: 1 <-> 5.
ReverseValue(val) == 6 - val

RECURSIVE CollectValues(_, _, _)
\* The loop over answers.items(): dimension_values after items k..Len(answers).
CollectValues(ans, k, dimension_values) ==
    IF k > Len(ans) THEN dimension_values
    ELSE LET meta == ans[k]
             dim  == Get(meta, "dimension", None)
         IN  IF dim \notin CoreSet
             THEN CollectValues(ans, k + 1, dimension_values)
             ELSE LET val     == Get(meta, "value", 3)
                      reverse == Get(meta, "reverse", FALSE)
                      v       == IF reverse THEN ReverseValue(val) ELSE val
                  IN  CollectValues(ans, k + 1,
                          [dimension_values EXCEPT ![dim] = Append(@, v)])

\* The score of one dimension from its list of values (faulty variant: no midpoint
\* default, an empty dimension scores 0).
DimensionScoreNoDefault(vals) ==
    IF vals = <<>> THEN Rat(0, 1)
    ELSE RatDiv(RatSub(Rat(SumSeq(vals), Len(vals)), RatOfInt(1)), 4)

\* The score of one dimension (faulty variant: the mean divided by 5, not mapped from
\* 1..5 onto 0..1).
DimensionScoreMeanOverFive(vals) ==
    IF vals = <<>> THEN Midpoint
    ELSE RatDiv(Rat(SumSeq(vals), Len(vals)), 5)

\* The score of one dimension from its list of values.
DimensionScore(vals) ==
    IF vals = <<>> THEN Midpoint
    ELSE LET avg == Rat(SumSeq(vals), Len(vals))
         IN  RatDiv(RatSub(avg, RatOfInt(1)), 4)

\* normalize_scores(answers).
normalize_scores(ans) ==
    LET dimension_values == CollectValues(ans, 1, [dim \in CoreSet |-> <<>>])
    IN  [dim \in CoreSet |-> DimensionScore(dimension_values[dim])]

(***************************************************************************)
(* idix_engine.py: archetype vectors and the hybrid score.                 *)
(***************************************************************************)
\* Resolution of the behaviour space: a float x in [0, 1] is the integer x * Scale.
Scale == 40

\* A float score as a fixed-point coordinate (np.array(..., dtype=float)).
ToFixed(r) == (r.num * Scale) \div r.den

\* Whether ToFixed loses nothing.
IsExact(r) == (r.num * Scale) % r.den = 0

\* An archetype entry of archetypes.json: the keys the engine reads.  Weights
\* are whole numbers here.
ArchetypePool ==
    [ Analyst |->
        [ primary_dimensions   |-> {"clinical_decision_style"},
          secondary_dimensions |-> {"response_tempo"},
          tertiary_dimensions  |-> {"risk_orientation"},
          dimension_weights    |-> [ clinical_decision_style |-> 2,
                                     response_tempo          |-> 1,
                                     risk_orientation        |-> 1 ],
          description          |-> "analyst" ],
      Detective |->
        [ primary_dimensions   |-> {"response_tempo"},
          secondary_dimensions |-> {"clinical_decision_style"},
          dimension_weights    |-> [ clinical_decision_style |-> 1,
                                     response_tempo          |-> 1,
                                     risk_orientation        |-> 1,
                                     team_communication      |-> 1,
                                     stress_handling         |-> 1,
                                     learning_adaptation     |-> 1 ],
          description          |-> "detective" ],
      Harmoniser |->
        [ primary_dimensions   |-> {"team_communication"},
          dimension_weights    |-> [ clinical_decision_style |-> 0,
                                     response_tempo          |-> 0,
                                     risk_orientation        |-> 0,
                                     team_communication      |-> 0,
                                     stress_handling         |-> 0,
                                     learning_adaptation     |-> 0 ],
          description          |-> "harmoniser" ],
      LoneWolf |-> [ description |-> "lone wolf" ] ]

\* The names a catalog may hold.
ArchetypeNames == DOMAIN ArchetypePool

\* Entries of archetypes.json with a negative weight: under the square root
\* of _weighted_distance the weighted sum of one is negative wherever the
\* vector differs from the entry's on the weighted dimension.
NegativePool ==
    [ Contrarian |->
        [ primary_dimensions |-> {"risk_orientation"},
          dimension_weights  |-> [ clinical_decision_style |-> -1 ],
          description        |-> "contrarian" ] ]

\* archetypes[name] for a catalog (a sequence of names): the entry's data.
ArchetypeData(name) ==
    IF name \in DOMAIN NegativePool THEN NegativePool[name] ELSE ArchetypePool[name]

\* The names of a sequence, as a set.
Keys(names) == {names[i] : i \in 1..Len(names)}

\* _build_archetype_vector(archetype).
_build_archetype_vector(archetype) ==
    LET primary   == Get(archetype, "primary_dimensions", {})
        secondary == Get(archetype, "secondary_dimensions", {})
        tertiary  == Get(archetype, "tertiary_dimensions", {})
    IN  [ i \in 1..NDims |->
            LET dim == CORE_DIMENSIONS[i]
            IN  IF dim \in primary THEN Scale
                ELSE IF dim \in secondary THEN (7 * Scale) \div 10
                ELSE IF dim \in tertiary THEN (4 * Scale) \div 10
                ELSE Scale \div 2 ]

\* _extract_weight_vector(archetype).
_extract_weight_vector(archetype) ==
    LET w_dict == Get(archetype, "dimension_weights", EmptyDict)
    IN  [ i \in 1..NDims |-> Get(w_dict, CORE_DIMENSIONS[i], 0) ]

RECURSIVE SumTo(_, _)
\* np.sum over a vector f[1..n].
SumTo(f, n) == IF n = 0 THEN 0 ELSE f[n] + SumTo(f, n - 1)

\* _weighted_distance(user_vec, arche_vec, weight_vec), as the number under the
\* square root, in units of 1/Scale^2: the distance is sqrt(it) / Scale, and is
\* NaN when it is negative.
_weighted_distance(user_vec, arche_vec, weight_vec) ==
    SumTo([ i \in 1..NDims |->
              weight_vec[i] * (user_vec[i] - arche_vec[i]) * (user_vec[i] - arche_vec[i]) ],
          NDims)

\* _weighted_similarity(user_vec, arche_vec, weight_vec), in units of 1/Scale^2.
_weighted_similarity(user_vec, arche_vec, weight_vec) ==
    SumTo([ i \in 1..NDims |-> weight_vec[i] * user_vec[i] * arche_vec[i] ], NDims)

\* _hybrid_score: sim - dist, kept as the pair (sim, e) that stands for the
\* float (sim - sqrt(e)) / Scale^2, with e = Scale^2 * (squared distance).
_hybrid_score(user_vec, arche_vec, weight_vec) ==
    LET dist == _weighted_distance(user_vec, arche_vec, weight_vec)
        sim  == _weighted_similarity(user_vec, arche_vec, weight_vec)
    IN  [sim |-> sim, e |-> Scale * Scale * dist]

\* Whether a score is NaN (the square root of a negative number).
IsNaN(score) == score.e < 0

\* The initial best_score, -1e9.
MinusBillion == [sentinel |-> TRUE]

RECURSIVE FracCmp(_, _, _, _)
\* The sign (-1, 0, 1) of a/b - c/d for a, c >= 0 and b, d > 0, without
\* forming a product (Euclid's algorithm on the two fractions).
FracCmp(a, b, c, d) ==
    LET qa == a \div b
        qc == c \div d
        ra == a % b
        rc == c % d
    IN  IF qa # qc THEN (IF qa > qc THEN 1 ELSE -1)
        ELSE IF ra = 0 /\ rc = 0 THEN 0
        ELSE IF ra = 0 THEN -1
        ELSE IF rc = 0 THEN 1
        ELSE FracCmp(d, rc, b, ra)

\* Whether x + sqrt(q) > sqrt(p), for integers x and p, q >= 0, exactly.
RootGt(x, p, q) ==
    LET r == p - q - x * x      \* the claim is 2 x sqrt(q) > r
    IN  IF x >= 0
        THEN IF r < 0 THEN TRUE
             ELSE IF x = 0 \/ q = 0 THEN FALSE
             ELSE IF r = 0 THEN TRUE
             ELSE FracCmp(4 * q, r, r, x * x) = 1
        ELSE IF q <= x * x THEN FALSE
             ELSE IF r >= 0 THEN FALSE
             ELSE FracCmp(4 * q, -r, -r, x * x) = -1

\* The float comparison a > b of two hybrid scores, or of a hybrid score with
\* -1e9 (every score of the model is far above -1e9).  NaN compares False.
ScoreGt(a, b) ==
    IF IsNaN(a) THEN FALSE
    ELSE IF "sentinel" \in DOMAIN b THEN TRUE
    ELSE IF IsNaN(b) THEN FALSE
    ELSE RootGt(a.sim - b.sim, a.e, b.e)

\* The comparison a >= b (faulty variant of the strict comparison in the selection loop).
ScoreGe(a, b) ==
    IF IsNaN(a) THEN FALSE
    ELSE IF "sentinel" \in DOMAIN b THEN TRUE
    ELSE IF IsNaN(b) THEN FALSE
    ELSE ~RootGt(b.sim - a.sim, b.e, a.e)

(***************************************************************************)
(* idix_engine.py: primary archetype matching.                             *)
(***************************************************************************)
\* user_vec = np.array([final_scores.get(dim, 0.5) for dim in CORE_DIMENSIONS]).
UserVec(scores) ==
    [ i \in 1..NDims |-> ToFixed(Get(scores, CORE_DIMENSIONS[i], Midpoint)) ]

\* The hybrid score of the catalog entry `name` at vector v.
ScoreOf(v, name) ==
    _hybrid_score(v, _build_archetype_vector(ArchetypeData(name)),
                     _extract_weight_vector(ArchetypeData(name)))

\* The update test of determine_archetype's loop, score > best_score.
Better(score, best_score) == ScoreGt(score, best_score)

RECURSIVE BestFrom(_, _, _, _, _)
\* determine_archetype's loop over archetypes.items() from item k on:
\* its (best_name, best_score) at the end.
BestFrom(names, k, user_vec, best_name, best_score) ==
    IF k > Len(names) THEN <<best_name, best_score>>
    ELSE LET name  == names[k]
             score == ScoreOf(user_vec, name)
         IN  IF Better(score, best_score)
             THEN BestFrom(names, k + 1, user_vec, name, score)
             ELSE BestFrom(names, k + 1, user_vec, best_name, best_score)

\* determine_archetype(final_scores, archetypes): (primary_name, archetype_data).
determine_archetype(scores, names) ==
    IF names = <<>> THEN <<None, EmptyDict>>
    ELSE LET best_name == BestFrom(names, 1, UserVec(scores), None, MinusBillion)[1]
         IN  <<best_name,
               IF best_name \in Keys(names) THEN ArchetypeData(best_name) ELSE EmptyDict>>

(***************************************************************************)
(* idix_engine.py: Monte Carlo probabilities.                              *)
(***************************************************************************)
\* Number of Monte Carlo samples (the code's default is 4000).
Trials == 2

\* Size of one noise excursion, in units of 1/Scale (the code draws each
\* component from a Gaussian of standard deviation 0.08).
NoiseStep == 4

\* The noise vectors a trial may draw: none, a common shift of every
\* dimension, or a shift of the first or second dimension alone.
NoiseVectors ==
    { [i \in 1..NDims |-> k] : k \in {-NoiseStep, 0, NoiseStep} }
    \cup { [i \in 1..NDims |-> IF i = j THEN k ELSE 0] :
             j \in 1..2, k \in {-NoiseStep, NoiseStep} }

\* A component left as drawn (faulty variant: no clipping).
ClipNot(x) == x

\* np.clip(x, 0.0, 1.0) of one component.
Clip(x) == IF x < 0 THEN 0 ELSE IF x > Scale THEN Scale ELSE x

\* noisy_vec = np.clip(user_vec + noise, 0.0, 1.0).
NoisyVec(user_vec, noise) == [ i \in 1..NDims |-> Clip(user_vec[i] + noise[i]) ]

\* arche_data: the pre-built (arche_vec, w_vec) of every catalog entry.
ArcheDataOf(names) ==
    [ name \in Keys(names) |->
        << _build_archetype_vector(ArchetypeData(name)),
           _extract_weight_vector(ArchetypeData(name)) >> ]

RECURSIVE TrialBestLastWins(_, _, _, _, _, _)
\* The inner loop of one trial (faulty variant: `>=`, so the last of several
\* tied entries wins, not the first).
TrialBestLastWins(arche_names, arche_data, k, noisy_vec, best_name, best_score) ==
    IF k > Len(arche_names) THEN best_name
    ELSE LET name  == arche_names[k]
             score == _hybrid_score(noisy_vec, arche_data[name][1], arche_data[name][2])
         IN  IF ScoreGe(score, best_score)
             THEN TrialBestLastWins(arche_names, arche_data, k + 1, noisy_vec, name, score)
             ELSE TrialBestLastWins(arche_names, arche_data, k + 1, noisy_vec,
                                    best_name, best_score)

RECURSIVE TrialBest(_, _, _, _, _, _)
\* The inner loop of one trial over arche_names from item k on: its best_name.
TrialBest(arche_names, arche_data, k, noisy_vec, best_name, best_score) ==
    IF k > Len(arche_names) THEN best_name
    ELSE LET name  == arche_names[k]
             score == _hybrid_score(noisy_vec, arche_data[name][1], arche_data[name][2])
         IN  IF ScoreGt(score, best_score)
             THEN TrialBest(arche_names, arche_data, k + 1, noisy_vec, name, score)
             ELSE TrialBest(arche_names, arche_data, k + 1, noisy_vec, best_name, best_score)

\* The percentage of one count (faulty variant: a fraction, not a percentage).
PercentAsFraction(count, trials) == Rat(count, trials)

\* (count / trials) * 100.0.
Percent(count, trials) == Rat(count * 100, trials)

\* probs = {name: (count / trials) * 100.0 for name, count in counts.items()}.
ProbsOf(cnt, trials) == [ name \in DOMAIN cnt |-> Percent(cnt[name], trials) ]

RECURSIVE FirstMax(_, _, _, _)
\* max(probs, key=probs.get): the first key, in dict order, of the largest value.
FirstMax(names, p, k, best) ==
    IF k > Len(names) THEN best
    ELSE IF RatLt(p[best], p[names[k]])
         THEN FirstMax(names, p, k + 1, names[k])
         ELSE FirstMax(names, p, k + 1, best)

RECURSIVE InsertDesc(_, _, _)
\* One step of a stable descending sort: item goes behind every element of
\* `sorted` that is not smaller than it.
InsertDesc(item, sorted, k) ==
    IF k > Len(sorted) THEN Append(sorted, item)
    ELSE IF RatLt(sorted[k][2], item[2])
         THEN SubSeq(sorted, 1, k - 1) \o <<item>> \o SubSeq(sorted, k, Len(sorted))
         ELSE InsertDesc(item, sorted, k + 1)

RECURSIVE SortedDesc(_, _, _, _)
\* sorted(probs.items(), key=lambda x: x[1], reverse=True): Python's sort is
\* stable, and stays so under reverse=True.
SortedDesc(names, p, k, acc) ==
    IF k > Len(names) THEN acc
    ELSE SortedDesc(names, p, k + 1, InsertDesc(<<names[k], p[names[k]]>>, acc, 1))

\* The shadow taken from the sorted list (faulty variant: the head of the list).
ShadowFromHead(sorted_probs, primary, stab) == sorted_probs[1]

\* shadow = sorted_probs[1] if there is a second entry, else the primary.
ShadowOf(sorted_probs, primary, stab) ==
    IF Len(sorted_probs) > 1 THEN sorted_probs[2] ELSE <<primary, stab>>

\* The tail of monte_carlo_probabilities: (probs, stability, shadow) from counts.
MonteCarloResult(names, cnt, trials) ==
    LET p            == ProbsOf(cnt, trials)
        primary      == FirstMax(names, p, 2, names[1])
        stab         == p[primary]
        sorted_probs == SortedDesc(names, p, 1, <<>>)
    IN  <<p, stab, ShadowOf(sorted_probs, primary, stab)>>

\* monte_carlo_probabilities' result for an empty catalog.
MonteCarloEmpty == <<EmptyDict, Rat(0, 1), <<"None", Rat(0, 1)>> >>

(***************************************************************************)
(* State shared by the specifications.                                     *)
(***************************************************************************)
\* A local that no statement has assigned yet.
Unset == "<unset>"

\* st.session_state after the defaults of the session state initialisation.
UIInit ==
    /\ step = 1
    /\ has_results = FALSE
    /\ open_archetype = None
    /\ ss_answers = EmptyDict
    /\ widgets = EmptyDict
    /\ consent = TRUE

\* The locals of a Calculate press before it runs.
CalcInit ==
    /\ final_scores = Unset
    /\ primary_name = Unset
    /\ archetype_data = Unset
    /\ log_calls = 0
    /\ log_outcome = "none"
    /\ raised = None

\* The locals of monte_carlo_probabilities before it runs.
MCInit ==
    /\ counts = EmptyDict
    /\ trial = 0
    /\ bucket = Unset
    /\ probs = Unset
    /\ stability = Unset
    /\ shadow = Unset

(***************************************************************************)
(* SpecNorm: normalize_scores as a function of its argument.               *)
(***************************************************************************)
\* The dimensions an answer may name: two core dimensions and one that is not
\* core (I-Type's default dimension).
DimensionInputs == {CORE_DIMENSIONS[1], CORE_DIMENSIONS[2], "thinking"}

\* The Likert values of a slider.
Likert == 1..5

\* The metas an answers dict may hold: the three keys the apps write, and
\* metas that lack "value" and "reverse".
AnswerMetas ==
    [dimension : DimensionInputs, value : Likert, reverse : BOOLEAN]
    \cup { [dimension |-> d] : d \in {CORE_DIMENSIONS[1], "thinking"} }

\* The answers dicts of at most MaxAnswers items, in insertion order.
AnswerDicts == UNION { [1..n -> AnswerMetas] : n \in 0..MaxAnswers }

NormInit ==
    /\ app = "engine"
    /\ questions_file = "unused"
    /\ archetypes_file = "unused"
    /\ questions = <<>>
    /\ archetypes = <<>>
    /\ HAS_LOGGER = FALSE
    /\ UIInit
    /\ CalcInit
    /\ MCInit
    /\ answers \in AnswerDicts
    /\ pc = "normalize"

\* A call of normalize_scores(answers).
NormalizeScores ==
    /\ pc = "normalize"
    /\ final_scores' = normalize_scores(answers)
    /\ pc' = "normalized"
    /\ UNCHANGED <<envVars, uiVars, mcVars, answers, primary_name, archetype_data,
                   log_calls, log_outcome, raised>>

NormNext == NormalizeScores

SpecNorm == NormInit /\ [][NormNext]_vars

(***************************************************************************)
(* The steps of determine_archetype and monte_carlo_probabilities, shared  *)
(* by SpecEngine and by the Calculate press of the apps.                   *)
(***************************************************************************)
\* monte_carlo_probabilities up to its loop (faulty variant: without the early return
\* for an empty catalog).
MCEnterNoEmptyGuard ==
    /\ pc = "mc_enter"
    /\ counts' = [name \in Keys(archetypes) |-> 0]
    /\ trial' = 0
    /\ pc' = "mc_loop"
    /\ UNCHANGED <<bucket, probs, stability, shadow>>
    /\ UNCHANGED <<envVars, uiVars, calcVars, log_calls, log_outcome, raised>>

\* monte_carlo_probabilities up to its loop: the empty-catalog return, or the
\* zeroed counts.
MCEnter ==
    /\ pc = "mc_enter"
    /\ IF archetypes = <<>>
       THEN /\ probs' = MonteCarloEmpty[1]
            /\ stability' = MonteCarloEmpty[2]
            /\ shadow' = MonteCarloEmpty[3]
            /\ pc' = "mc_return"
            /\ UNCHANGED <<counts, trial, bucket>>
       ELSE /\ counts' = [name \in Keys(archetypes) |-> 0]
            /\ trial' = 0
            /\ pc' = "mc_loop"
            /\ UNCHANGED <<bucket, probs, stability, shadow>>
    /\ UNCHANGED <<envVars, uiVars, calcVars, log_calls, log_outcome, raised>>

\* One iteration of the loop `for _ in range(trials)`: a noise draw, the
\* clipped vector, its best archetype, and counts[best_name] += 1 (a KeyError
\* when best_name is None).
MCTrial ==
    /\ pc = "mc_loop"
    /\ trial < Trials
    /\ \E noise \in NoiseVectors :
         LET noisy_vec == NoisyVec(UserVec(final_scores), noise)
             best_name == TrialBest(archetypes, ArcheDataOf(archetypes), 1,
                                    noisy_vec, None, MinusBillion)
         IN  /\ bucket' = <<noisy_vec, best_name>>
             /\ IF best_name \in DOMAIN counts
                THEN /\ counts' = [counts EXCEPT ![best_name] = @ + 1]
                     /\ trial' = trial + 1
                     /\ UNCHANGED <<pc, raised>>
                ELSE /\ raised' = "KeyError"
                     /\ pc' = "raised"
                     /\ UNCHANGED <<counts, trial>>
    /\ UNCHANGED <<envVars, uiVars, calcVars, probs, stability, shadow,
                   log_calls, log_outcome>>

\* The end of the loop and the tail of monte_carlo_probabilities.
MCFinish ==
    /\ pc = "mc_loop"
    /\ trial = Trials
    /\ LET res == MonteCarloResult(archetypes, counts, Trials)
       IN  /\ probs' = res[1]
           /\ stability' = res[2]
           /\ shadow' = res[3]
    /\ bucket' = Unset
    /\ pc' = "mc_return"
    /\ UNCHANGED <<envVars, uiVars, calcVars, counts, trial, log_calls, log_outcome, raised>>

(***************************************************************************)
(* SpecEngine: determine_archetype and monte_carlo_probabilities as        *)
(* functions of their arguments.                                           *)
(***************************************************************************)
\* Longest catalog.
MaxArchetypes == 2

\* The catalogs: every order of at most MaxArchetypes distinct names.
Catalogs ==
    UNION { { c \in [1..n -> ArchetypeNames] :
                \A i, j \in 1..n : i # j => c[i] # c[j] } :
            n \in 0..MaxArchetypes }

\* Score levels of the inputs.
ScoreLevels == { Rat(0, 1), Rat(1, 4), Rat(3, 8), Rat(1, 2), Rat(3, 4), Rat(1, 1) }

\* The final_scores dicts handed to the engine: the empty dict, one level on
\* every dimension, and one level on the first dimension with the rest neutral.
ScoreInputs ==
    {EmptyDict}
    \cup { [dim \in CoreSet |-> r] : r \in ScoreLevels }
    \cup { [dim \in CoreSet |-> IF dim = CORE_DIMENSIONS[1] THEN r ELSE Midpoint] :
             r \in ScoreLevels }

EngineInit ==
    /\ app = "engine"
    /\ questions_file = "unused"
    /\ archetypes_file = "unused"
    /\ questions = <<>>
    /\ HAS_LOGGER = FALSE
    /\ UIInit
    /\ MCInit
    /\ answers = <<>>
    /\ archetypes \in Catalogs
    /\ final_scores \in ScoreInputs
    /\ primary_name = Unset
    /\ archetype_data = Unset
    /\ log_calls = 0
    /\ log_outcome = "none"
    /\ raised = None
    /\ pc = "determine"

\* A call of determine_archetype(final_scores, archetypes).
DetermineArchetype ==
    /\ pc = "determine"
    /\ LET res == determine_archetype(final_scores, archetypes)
       IN  /\ primary_name' = res[1]
           /\ archetype_data' = res[2]
    /\ pc' = "mc_enter"
    /\ UNCHANGED <<envVars, uiVars, mcVars, answers, final_scores, log_calls,
                   log_outcome, raised>>

EngineNext == DetermineArchetype \/ MCEnter \/ MCTrial \/ MCFinish

SpecEngine == EngineInit /\ [][EngineNext]_vars

(***************************************************************************)
(* SpecWeights: the engine on catalogs that hold an entry with a negative  *)
(* weight.                                                                 *)
(***************************************************************************)
\* The catalogs: every order of at most MaxArchetypes distinct names, one of
\* them an entry with a negative weight.
WeightCatalogs ==
    UNION { { c \in [1..n -> ArchetypeNames \cup DOMAIN NegativePool] :
                /\ \A i, j \in 1..n : i # j => c[i] # c[j]
                /\ \E i \in 1..n : c[i] \in DOMAIN NegativePool } :
            n \in 1..MaxArchetypes }

WeightsInit ==
    /\ app = "engine"
    /\ questions_file = "unused"
    /\ archetypes_file = "unused"
    /\ questions = <<>>
    /\ HAS_LOGGER = FALSE
    /\ UIInit
    /\ MCInit
    /\ answers = <<>>
    /\ archetypes \in WeightCatalogs
    /\ final_scores \in ScoreInputs
    /\ primary_name = Unset
    /\ archetype_data = Unset
    /\ log_calls = 0
    /\ log_outcome = "none"
    /\ raised = None
    /\ pc = "determine"

SpecWeights == WeightsInit /\ [][EngineNext]_vars

(***************************************************************************)
(* Claims about normalize_scores (SpecNorm).                               *)
(***************************************************************************)
\* The items of an answers dict that name dimension dim.
ItemsOf(ans, dim) == { k \in 1..Len(ans) : Get(ans[k], "dimension", None) = dim }

\* The value an item counts with: its value, mirrored in 1..5 when reversed.
Effective(meta) ==
    IF Get(meta, "reverse", FALSE) THEN 6 - Get(meta, "value", 3)
    ELSE Get(meta, "value", 3)

RECURSIVE EffectiveSum(_, _)
\* The sum of the effective values of the items in the index set S.
EffectiveSum(ans, S) ==
    IF S = {} THEN 0
    ELSE LET k == CHOOSE x \in S : TRUE
         IN  Effective(ans[k]) + EffectiveSum(ans, S \ {k})

\* C1: after normalize_scores, every core dimension with at least one answer
\* has the score (mean of its effective values - 1) / 4; that score lies in
\* [0, 1]; it is 0 when every effective value is 1 and 1 when every effective
\* value is 5.
C1_ScoreIsScaledMean ==
    pc = "normalized" =>
        \A dim \in CoreSet :
            LET S == ItemsOf(answers, dim)
                n == Cardinality(S)
                t == EffectiveSum(answers, S)
            IN  S # {} =>
                  /\ RatEq(final_scores[dim], Rat(t - n, 4 * n))
                  /\ RatLe(Rat(0, 1), final_scores[dim])
                  /\ RatLe(final_scores[dim], Rat(1, 1))
                  /\ (\A k \in S : Effective(answers[k]) = 1)
                        => RatEq(final_scores[dim], Rat(0, 1))
                  /\ (\A k \in S : Effective(answers[k]) = 5)
                        => RatEq(final_scores[dim], Rat(1, 1))

\* C1 witness: a dimension with two answers of different values, one of them
\* reversed, scored strictly between 0 and 1.
C1_Witness ==
    /\ pc = "normalized"
    /\ \E dim \in CoreSet :
         /\ ItemsOf(answers, dim) = {1, 2}
         /\ Get(answers[1], "reverse", FALSE) /\ ~Get(answers[2], "reverse", FALSE)
         /\ Get(answers[1], "value", 3) = 2 /\ Get(answers[2], "value", 3) = 5
         /\ RatEq(final_scores[dim], Rat(7, 8))

\* An item with its reverse flag cleared and its value mirrored.
Unreversed(meta) ==
    IF Get(meta, "reverse", FALSE)
    THEN [dimension |-> Get(meta, "dimension", None),
          value |-> 6 - Get(meta, "value", 3), reverse |-> FALSE]
    ELSE meta

\* An item with its reverse flag flipped.
Flipped(meta) ==
    [dimension |-> Get(meta, "dimension", None),
     value |-> Get(meta, "value", 3), reverse |-> ~Get(meta, "reverse", FALSE)]

\* C2: reverse-scoring mirrors 1..5.  (a) The scores are those of the answers
\* with every reversed item replaced by an unreversed item of value 6 - v.
\* (b) Flipping the reverse flag of every item of a dimension turns its score
\* s into 1 - s and leaves the other dimensions' scores alone.  (c) Flipping
\* the flag of the items whose value is 3 changes no score.
C2_ReverseMirrors ==
    pc = "normalized" =>
        /\ LET u == normalize_scores([k \in 1..Len(answers) |-> Unreversed(answers[k])])
           IN  \A dim \in CoreSet : RatEq(final_scores[dim], u[dim])
        /\ \A dim \in CoreSet :
             ItemsOf(answers, dim) # {} =>
               LET f == normalize_scores(
                          [k \in 1..Len(answers) |->
                             IF k \in ItemsOf(answers, dim)
                             THEN Flipped(answers[k]) ELSE answers[k]])
               IN  /\ RatEq(f[dim], RatSub(Rat(1, 1), final_scores[dim]))
                   /\ \A other \in CoreSet \ {dim} : RatEq(f[other], final_scores[other])
        /\ LET g == normalize_scores(
                      [k \in 1..Len(answers) |->
                         IF Get(answers[k], "value", 3) = 3
                         THEN Flipped(answers[k]) ELSE answers[k]])
           IN  \A dim \in CoreSet : RatEq(g[dim], final_scores[dim])

\* C2 witness: a core dimension scored from a reversed 1 and a reversed 3.
C2_Witness ==
    /\ pc = "normalized"
    /\ Len(answers) = 2
    /\ \A k \in 1..2 : /\ Get(answers[k], "dimension", None) = CORE_DIMENSIONS[1]
                       /\ Get(answers[k], "reverse", FALSE)
    /\ Get(answers[1], "value", 3) = 1
    /\ Get(answers[2], "value", 3) = 3
    /\ RatEq(final_scores[CORE_DIMENSIONS[1]], Rat(3, 4))

\* C3: normalize_scores returns a score for exactly the six core dimensions;
\* a core dimension without answers scores 0.5; answers of other dimensions
\* change no score (the scores are those of the core answers alone).
C3_ExactlyCoreDimensions ==
    pc = "normalized" =>
        /\ DOMAIN final_scores = CoreSet
        /\ Cardinality(DOMAIN final_scores) = 6
        /\ \A dim \in CoreSet :
             ItemsOf(answers, dim) = {} => RatEq(final_scores[dim], Rat(1, 2))
        /\ LET IsCore(meta) == Get(meta, "dimension", None) \in CoreSet
               c == normalize_scores(SelectSeq(answers, IsCore))
           IN  \A dim \in CoreSet : RatEq(final_scores[dim], c[dim])

\* C3 witness: one answer of a dimension that is not core, one core answer,
\* and the remaining core dimensions at the midpoint.
C3_Witness ==
    /\ pc = "normalized"
    /\ Len(answers) = 2
    /\ Get(answers[1], "dimension", None) = "thinking"
    /\ Get(answers[1], "value", 3) = 5
    /\ Get(answers[2], "dimension", None) = CORE_DIMENSIONS[2]
    /\ Get(answers[2], "value", 3) = 1 /\ ~Get(answers[2], "reverse", FALSE)
    /\ RatEq(final_scores[CORE_DIMENSIONS[2]], Rat(0, 1))
    /\ \A dim \in CoreSet \ {CORE_DIMENSIONS[2]} : RatEq(final_scores[dim], Rat(1, 2))

(***************************************************************************)
(* Claims about determine_archetype and monte_carlo_probabilities          *)
(* (SpecEngine).                                                           *)
(***************************************************************************)
\* The position of a name in a catalog.
IndexOf(names, name) == CHOOSE i \in 1..Len(names) : names[i] = name

\* Whether determine_archetype has returned.
Determined == pc \in {"mc_enter", "mc_loop", "mc_return"}

\* C4: for a non-empty catalog determine_archetype returns a name of the
\* catalog whose hybrid score no other entry exceeds, the first such name in
\* catalog order (it strictly exceeds every earlier entry), and that entry's
\* own data.
C4_PrimaryIsFirstMaximum ==
    (Determined /\ archetypes # <<>>) =>
        /\ primary_name \in Keys(archetypes)
        /\ LET u    == UserVec(final_scores)
               best == ScoreOf(u, primary_name)
               at   == IndexOf(archetypes, primary_name)
           IN  /\ \A j \in 1..Len(archetypes) :
                     ~ScoreGt(ScoreOf(u, archetypes[j]), best)
               /\ \A j \in 1..(at - 1) :
                     ScoreGt(best, ScoreOf(u, archetypes[j]))
        /\ archetype_data = ArchetypeData(primary_name)

\* C4 witness: two entries tie for the maximum and the first is returned.
C4_Witness ==
    /\ Determined
    /\ Len(archetypes) = 2
    /\ LET u == UserVec(final_scores)
       IN  /\ ~ScoreGt(ScoreOf(u, archetypes[1]), ScoreOf(u, archetypes[2]))
           /\ ~ScoreGt(ScoreOf(u, archetypes[2]), ScoreOf(u, archetypes[1]))
    /\ primary_name = archetypes[1]
    /\ archetype_data = ArchetypeData(archetypes[1])

\* C4 witness, second case: the second entry strictly beats the first and is
\* returned.
C4_WitnessSecond ==
    /\ Determined
    /\ Len(archetypes) = 2
    /\ ScoreGt(ScoreOf(UserVec(final_scores), archetypes[2]),
               ScoreOf(UserVec(final_scores), archetypes[1]))
    /\ primary_name = archetypes[2]

RECURSIVE SumCounts(_, _)
\* The sum of a counts table over the names in S.
SumCounts(cnt, S) ==
    IF S = {} THEN 0
    ELSE LET n == CHOOSE x \in S : TRUE IN cnt[n] + SumCounts(cnt, S \ {n})

\* C5, the state part: inside and after the loop the counts sum to the number
\* of completed iterations, which never exceeds Trials; the function returns
\* only after exactly Trials iterations, with one percentage per catalog
\* entry, each in [0, 100], summing to 100.
C5_CountsAndPercentages ==
    /\ pc \in {"mc_loop", "mc_return"} /\ archetypes # <<>> =>
         /\ DOMAIN counts = Keys(archetypes)
         /\ SumCounts(counts, DOMAIN counts) = trial
         /\ trial <= Trials
    /\ pc = "mc_return" /\ archetypes # <<>> =>
         /\ trial = Trials
         /\ DOMAIN probs = Keys(archetypes)
         /\ \A n \in DOMAIN probs :
              RatLe(Rat(0, 1), probs[n]) /\ RatLe(probs[n], Rat(100, 1))
         /\ SumCounts([n \in DOMAIN probs |-> probs[n].num], DOMAIN probs)
              = 100 * Trials
         /\ \A n \in DOMAIN probs : probs[n].den = Trials

\* C5: monte_carlo_probabilities runs exactly Trials resamples and each
\* resample increments exactly one archetype's count by one: the state part
\* above holds always, and every step that completes an iteration adds one to
\* one count and leaves the others alone.
C5_ExactlyTrialsResamples ==
    /\ []C5_CountsAndPercentages
    /\ [][ trial' # trial =>
             /\ trial' = trial + 1
             /\ \E n \in DOMAIN counts : counts' = [counts EXCEPT ![n] = @ + 1] ]_vars

\* C5 witness: the loop has ended after Trials iterations on a catalog of two
\* entries that both received resamples.
C5_Witness ==
    /\ pc = "mc_return"
    /\ Len(archetypes) = 2
    /\ trial = Trials
    /\ \A n \in DOMAIN counts : counts[n] >= 1
    /\ \A n \in DOMAIN probs : RatLt(Rat(0, 1), probs[n]) /\ RatLt(probs[n], Rat(100, 1))

\* The top bucket: the first catalog entry whose percentage is the stability.
TopBucket ==
    archetypes[CHOOSE i \in 1..Len(archetypes) :
                 /\ RatEq(probs[archetypes[i]], stability)
                 /\ \A j \in 1..(i - 1) : ~RatEq(probs[archetypes[j]], stability)]

\* C6: stability is the largest percentage and the shadow is the second
\* bucket: the shadow is a catalog entry with its own percentage, not above
\* the stability; no entry other than the top one is above the shadow's
\* percentage; with two or more entries the shadow is not the top entry, ties
\* included; with one entry the shadow is that entry at the stability.
C6_StabilityAndShadow ==
    (pc = "mc_return" /\ archetypes # <<>>) =>
        /\ \A n \in DOMAIN probs : RatLe(probs[n], stability)
        /\ \E n \in DOMAIN probs : RatEq(probs[n], stability)
        /\ shadow[1] \in Keys(archetypes)
        /\ RatEq(shadow[2], probs[shadow[1]])
        /\ RatLe(shadow[2], stability)
        /\ \A n \in DOMAIN probs \ {TopBucket} : RatLe(probs[n], shadow[2])
        /\ Len(archetypes) >= 2 => shadow[1] # TopBucket
        /\ Len(archetypes) = 1 => shadow = <<archetypes[1], stability>>

\* C6 witness: two entries tie for the largest percentage; the shadow is the
\* second of them, at the same percentage as the stability.
C6_Witness ==
    /\ pc = "mc_return"
    /\ Len(archetypes) >= 2
    /\ RatEq(probs[archetypes[1]], probs[archetypes[2]])
    /\ RatEq(stability, probs[archetypes[1]])
    /\ shadow[1] = archetypes[2]
    /\ RatEq(shadow[2], stability)

\* C6 witness, second case: a single entry is its own shadow.
C6_WitnessSingle ==
    /\ pc = "mc_return"
    /\ Len(archetypes) = 1
    /\ shadow = <<archetypes[1], Rat(100 * Trials, Trials)>>

\* The final_scores dict of a vector of the behaviour space.
ScoresOfVec(v) == [ dim \in CoreSet |-> Rat(v[IndexOf(CORE_DIMENSIONS, dim)], Scale) ]

\* C11: the Monte Carlo loop buckets a resample by the rule of the primary
\* lookup.  The name a trial picks for its vector v is the name
\* determine_archetype returns for the scores v, and the count the trial
\* increments is that name's; a trial whose vector is the user's own vector
\* (noise 0) increments the count of determine_archetype's primary, and when
\* every trial did so the primary is returned with 100%.
C11_TrialUsesPrimaryRule ==
    /\ []( (pc = "mc_loop" /\ bucket # Unset) =>
             /\ \A i \in 1..NDims : bucket[1][i] \in 0..Scale
             /\ bucket[2] = determine_archetype(ScoresOfVec(bucket[1]), archetypes)[1] )
    /\ [][ trial' # trial =>
             /\ counts' = [counts EXCEPT ![bucket'[2]] = @ + 1]
             /\ bucket'[1] = UserVec(final_scores) => bucket'[2] = primary_name ]_vars
    /\ []( (pc = "mc_return" /\ archetypes # <<>> /\ counts[primary_name] = Trials) =>
             /\ RatEq(probs[primary_name], Rat(100, 1))
             /\ RatEq(stability, Rat(100, 1)) )

\* C11 witness: the last trial of a two-entry catalog drew no noise and
\* landed, like every trial before it, on determine_archetype's primary, the
\* second entry of the catalog.
C11_Witness ==
    /\ pc = "mc_loop"
    /\ Len(archetypes) = 2
    /\ trial = Trials
    /\ bucket # Unset
    /\ bucket[1] = UserVec(final_scores)
    /\ bucket[2] = primary_name
    /\ primary_name = archetypes[2]
    /\ counts[primary_name] = Trials

\* C11 witness, second case: a trial whose noise moved the vector landed on an
\* entry that is not the primary of the user's own vector.
C11_WitnessMoved ==
    /\ pc = "mc_loop"
    /\ bucket # Unset
    /\ bucket[1] # UserVec(final_scores)
    /\ bucket[2] # primary_name
    /\ counts[bucket[2]] >= 1

\* C12: every noisy resample is clipped before it is scored: each component
\* of the vector a trial hands to the hybrid score lies in [0, 1].
C12_ResampleIsClipped ==
    (bucket # Unset) => \A i \in 1..NDims : 0 <= bucket[1][i] /\ bucket[1][i] <= Scale

\* C12 witness: noise that raised every component was added to a vector whose
\* first component is already 1.0; the first component stayed at 1.0.
C12_Witness ==
    /\ bucket # Unset
    /\ UserVec(final_scores)[1] = Scale
    /\ bucket[1][1] = Scale
    /\ \A i \in 2..NDims : bucket[1][i] = UserVec(final_scores)[i] + NoiseStep

\* C12 witness, second case: noise that lowered every component was added to
\* a vector of zeros, which stayed at zero.
C12_WitnessLow ==
    /\ bucket # Unset
    /\ \A i \in 1..NDims : UserVec(final_scores)[i] = 0 /\ bucket[1][i] = 0
    /\ trial = Trials

(***************************************************************************)
(* D-Type.py and I-Type.py: the data files.                                *)
(***************************************************************************)
\* What a data file may be when the script starts.
FileStates == {"present", "missing", "unreadable"}

\* load_json(path, default): the parsed content, or the default when open()
\* or json.load() raises.
load_json(file_state, content, default) ==
    IF file_state = "present" THEN content ELSE default

\* The questions.json of D-Type: two items of the first core dimension, the
\* second reverse-scored.
DTypeQuestions ==
    << [id |-> 1, question |-> "q1", dimension |-> CORE_DIMENSIONS[1]],
       [id |-> 2, question |-> "q2", dimension |-> CORE_DIMENSIONS[1], reverse |-> TRUE] >>

\* The questions.json of I-Type: one item of dimension "thinking" and one
\* without a dimension, reverse-scored.
ITypeQuestions ==
    << [question |-> "q1", dimension |-> "thinking"],
       [question |-> "q2", reverse |-> TRUE] >>

\* The questions a present questions.json holds.
QuestionsContent == IF app = "D-Type" THEN DTypeQuestions ELSE ITypeQuestions

\* The catalogs a present archetypes.json may hold.
AppCatalogs == { <<"LoneWolf", "Analyst">>, <<"Detective", "Analyst">> }

(***************************************************************************)
(* D-Type.py and I-Type.py: one script run.                                *)
(***************************************************************************)
\* The slider widgets after a run: on step 1 every question's slider is
\* drawn, keeping its own state or starting from the stored answer (3 when
\* there is none); a run that does not draw the sliders drops their state.
RenderedWidgets(stp, wid, ans) ==
    IF stp = 1 /\ questions # <<>>
    THEN [ i \in 1..Len(questions) |->
             IF i \in DOMAIN wid THEN wid[i] ELSE Get(ans, i, 3) ]
    ELSE EmptyDict

\* st.session_state["answers"] after a run: on step 1 every slider's value
\* is stored under its question's key.
RenderedAnswers(stp, wid, ans) ==
    IF stp = 1 /\ questions # <<>> THEN RenderedWidgets(stp, wid, ans) ELSE ans

\* Whether a run on step stp draws I-Type's consent checkbox.
CheckboxRendered(stp) ==
    app = "I-Type" /\ stp = 2 /\ questions # <<>> /\ archetypes # <<>>

\* The consent checkbox after a run: its state, or its default True once a
\* run has not drawn it.
RenderedConsent(stp, c) == IF CheckboxRendered(stp) THEN c ELSE TRUE

\* get_answers(questions) and get_answers_from_state(questions): the answers
\* dict, in insertion order.
get_answers(questions_list, stored) ==
    [ i \in 1..Len(questions_list) |->
        LET q == questions_list[i]
        IN  [ value     |-> Get(stored, i, 3),
              dimension |-> IF app = "D-Type" THEN q["dimension"]
                            ELSE Get(q, "dimension", "thinking"),
              reverse   |-> Get(q, "reverse", FALSE) ] ]

\* The dimensions the radar chart reads from final_scores.
RadarDimensions ==
    IF app = "D-Type" THEN CoreSet
    ELSE {"thinking", "execution", "risk", "motivation", "team", "commercial"}

\* The page no longer shows a result card: the locals of the last Calculate
\* press are gone.
CardCleared ==
    /\ answers' = <<>>
    /\ final_scores' = Unset
    /\ primary_name' = Unset
    /\ archetype_data' = Unset
    /\ counts' = EmptyDict
    /\ trial' = 0
    /\ bucket' = Unset
    /\ probs' = Unset
    /\ stability' = Unset
    /\ shadow' = Unset
    /\ log_calls' = 0
    /\ log_outcome' = "none"

\* Whether the page shows a result card.
CardShown == pc = "idle" /\ primary_name # Unset

Init ==
    /\ app \in {"D-Type", "I-Type"}
    /\ questions_file \in FileStates
    /\ archetypes_file \in FileStates
    /\ questions = load_json(questions_file, QuestionsContent, <<>>)
    /\ \E content \in AppCatalogs :
         archetypes = load_json(archetypes_file, content, <<>>)
    /\ HAS_LOGGER \in (IF app = "I-Type" THEN BOOLEAN ELSE {FALSE})
    /\ UIInit
    /\ CalcInit
    /\ MCInit
    /\ answers = <<>>
    /\ pc = "run"

\* A script run in which no button is pressed: the first run of a session,
\* the run after an on_click callback (D-Type), after st.rerun() (I-Type),
\* or after a slider or the checkbox changed.
ScriptRun ==
    /\ pc = "run"
    /\ widgets' = RenderedWidgets(step, widgets, ss_answers)
    /\ ss_answers' = RenderedAnswers(step, widgets, ss_answers)
    /\ consent' = RenderedConsent(step, consent)
    /\ raised' = None
    /\ CardCleared
    /\ pc' = "idle"
    /\ UNCHANGED <<envVars, step, has_results, open_archetype>>

\* The user moves the slider of question i to v (step 1).
SliderMove ==
    /\ pc = "idle"
    /\ step = 1
    /\ questions # <<>>
    /\ \E i \in 1..Len(questions), v \in Likert :
         /\ widgets[i] # v
         /\ widgets' = [widgets EXCEPT ![i] = v]
    /\ pc' = "run"
    /\ UNCHANGED <<envVars, step, has_results, open_archetype, ss_answers, consent,
                   calcVars, mcVars, log_calls, log_outcome, raised>>

\* The Reset button (step 1).  D-Type: the on_click callback reset().
\* I-Type: the button's branch, which also deletes the sliders' keys.
Reset ==
    /\ pc = "idle"
    /\ step = 1
    /\ ss_answers' = EmptyDict
    /\ step' = 1
    /\ has_results' = FALSE
    /\ widgets' = IF app = "I-Type" THEN EmptyDict ELSE widgets
    /\ pc' = "run"
    /\ UNCHANGED <<envVars, open_archetype, consent, calcVars, mcVars,
                   log_calls, log_outcome, raised>>

\* The Next button (faulty variant: it skips a step).
GoNextTooFar ==
    /\ pc = "idle"
    /\ step = 1
    /\ step' = step + 2
    /\ pc' = "run"
    /\ UNCHANGED <<envVars, has_results, open_archetype, ss_answers, widgets, consent,
                   calcVars, mcVars, log_calls, log_outcome, raised>>

\* The Next button (step 1): go_next() / the button's branch.
GoNext ==
    /\ pc = "idle"
    /\ step = 1
    /\ step' = 2
    /\ pc' = "run"
    /\ UNCHANGED <<envVars, has_results, open_archetype, ss_answers, widgets, consent,
                   calcVars, mcVars, log_calls, log_outcome, raised>>

\* The Back button (step 2, drawn after the Calculate block).  I-Type also
\* clears has_results.
Back ==
    /\ pc = "idle"
    /\ step = 2
    /\ raised = None
    /\ step' = 1
    /\ has_results' = IF app = "I-Type" THEN FALSE ELSE has_results
    /\ pc' = "run"
    /\ UNCHANGED <<envVars, open_archetype, ss_answers, widgets, consent,
                   calcVars, mcVars, log_calls, log_outcome, raised>>

\* The Start Over button (step 2, drawn after the Calculate block).
StartOver ==
    /\ pc = "idle"
    /\ step = 2
    /\ raised = None
    /\ step' = 1
    /\ ss_answers' = EmptyDict
    /\ has_results' = FALSE
    /\ pc' = "run"
    /\ UNCHANGED <<envVars, open_archetype, widgets, consent,
                   calcVars, mcVars, log_calls, log_outcome, raised>>

\* The user ticks or unticks I-Type's consent checkbox (step 2).
ToggleConsent ==
    /\ pc = "idle"
    /\ CheckboxRendered(step)
    /\ consent' = ~consent
    /\ pc' = "run"
    /\ UNCHANGED <<envVars, step, has_results, open_archetype, ss_answers, widgets,
                   calcVars, mcVars, log_calls, log_outcome, raised>>

\* An archetype's button in the explorer (faulty variant: the explorer draws
\* a button for every known archetype, not for the keys of the loaded catalog).
ArchetypeButtonAnyName ==
    /\ pc = "idle"
    /\ has_results
    /\ raised = None
    /\ \E name \in ArchetypeNames :
         open_archetype' = IF open_archetype = name THEN None ELSE name
    /\ widgets' = RenderedWidgets(step, widgets, ss_answers)
    /\ ss_answers' = RenderedAnswers(step, widgets, ss_answers)
    /\ consent' = RenderedConsent(step, consent)
    /\ CardCleared
    /\ UNCHANGED <<envVars, step, has_results, pc, raised>>

\* An archetype's button in the explorer, drawn at the end of a run when
\* has_results is set: the run it triggers toggles the open panel.
ArchetypeButton ==
    /\ pc = "idle"
    /\ has_results
    /\ raised = None
    /\ \E name \in Keys(archetypes) :
         open_archetype' = IF open_archetype = name THEN None ELSE name
    /\ widgets' = RenderedWidgets(step, widgets, ss_answers)
    /\ ss_answers' = RenderedAnswers(step, widgets, ss_answers)
    /\ consent' = RenderedConsent(step, consent)
    /\ CardCleared
    /\ UNCHANGED <<envVars, step, has_results, pc, raised>>

\* The Calculate button (step 2), up to the call of monte_carlo_probabilities:
\* the answers are built, has_results is set (I-Type also closes the open
\* panel), the scores are normalised and the primary archetype determined.
\* I-Type draws the button only when questions and archetypes are loaded.
Calculate ==
    /\ pc = "idle"
    /\ step = 2
    /\ IF app = "I-Type" THEN questions # <<>> /\ archetypes # <<>> ELSE TRUE
    /\ LET ans    == get_answers(questions, ss_answers)
           scores == normalize_scores(ans)
           res    == determine_archetype(scores, archetypes)
       IN  /\ answers' = ans
           /\ final_scores' = scores
           /\ primary_name' = res[1]
           /\ archetype_data' = res[2]
    /\ has_results' = TRUE
    /\ open_archetype' = IF app = "I-Type" THEN None ELSE open_archetype
    /\ widgets' = EmptyDict
    /\ counts' = EmptyDict
    /\ trial' = 0
    /\ bucket' = Unset
    /\ probs' = Unset
    /\ stability' = Unset
    /\ shadow' = Unset
    /\ log_calls' = 0
    /\ log_outcome' = "none"
    /\ raised' = None
    /\ pc' = "mc_enter"
    /\ UNCHANGED <<envVars, step, ss_answers, consent>>

\* How a call of log_response may end.
LogOutcomes == {"returned", "raised"}

\* The logging step (faulty variant: no try/except, an exception of log_response
\* ends the run before the result card).
LogResponseNoTry ==
    /\ pc = "mc_return"
    /\ app = "I-Type"
    /\ IF HAS_LOGGER /\ consent
       THEN /\ log_calls' = log_calls + 1
            /\ log_outcome' \in LogOutcomes
       ELSE UNCHANGED <<log_calls, log_outcome>>
    /\ raised' = IF log_outcome' = "raised" THEN "Exception" ELSE raised
    /\ pc' = IF log_outcome' = "raised" THEN "raised" ELSE "card"
    /\ UNCHANGED <<envVars, uiVars, calcVars, mcVars>>

\* I-Type: `if HAS_LOGGER and consent: try: log_response(...) except: pass`.
LogResponse ==
    /\ pc = "mc_return"
    /\ app = "I-Type"
    /\ IF HAS_LOGGER /\ consent
       THEN /\ log_calls' = log_calls + 1
            /\ log_outcome' \in LogOutcomes
       ELSE UNCHANGED <<log_calls, log_outcome>>
    /\ pc' = "card"
    /\ UNCHANGED <<envVars, uiVars, calcVars, mcVars, raised>>

\* Where the result card is drawn from: D-Type has no logging step.
CardEntry == IF app = "D-Type" THEN "mc_return" ELSE "card"

\* The rest of the Calculate block: the result card, then the radar chart,
\* which reads final_scores[d] for each of its dimensions (a KeyError ends
\* the run when one is missing), then the other charts and lists.
RenderResults ==
    /\ pc = CardEntry
    /\ raised' = IF RadarDimensions \subseteq DOMAIN final_scores
                 THEN None ELSE "KeyError"
    /\ pc' = "idle"
    /\ UNCHANGED <<envVars, uiVars, calcVars, mcVars, log_calls, log_outcome>>

Next ==
    \/ ScriptRun
    \/ SliderMove
    \/ Reset
    \/ GoNext
    \/ Back
    \/ StartOver
    \/ ToggleConsent
    \/ ArchetypeButton
    \/ Calculate
    \/ MCEnter
    \/ MCTrial
    \/ MCFinish
    \/ LogResponse
    \/ RenderResults

Spec == Init /\ [][Next]_vars

(***************************************************************************)
(* Claims about the result card (Spec).                                    *)
(***************************************************************************)
\* C7: the stability on the result card is the Monte Carlo percentage of the
\* primary archetype on that card: stability = probs[primary_name], with
\* primary_name the name determine_archetype returned.
C7_StabilityIsPrimaryShare ==
    (CardShown /\ archetypes # <<>>) => RatEq(stability, probs[primary_name])

\* C8: the shadow on the result card is never the primary on that card:
\* with two or more catalog entries the shadow name monte_carlo_probabilities
\* returned differs from the name determine_archetype returned.
C8_ShadowIsNotPrimary ==
    (CardShown /\ Len(archetypes) >= 2) => shadow[1] # primary_name

(***************************************************************************)
(* Claims about missing data files and about logging (Spec).               *)
(***************************************************************************)
\* C9: a missing or unreadable data file produces no error.  load_json gave
\* the default (no questions, an empty catalog); no run ends in an exception;
\* on an empty catalog determine_archetype returned (None, {}) and
\* monte_carlo_probabilities returned ({}, 0.0, ("None", 0.0)) without a
\* trial; I-Type with questions or archetypes missing computes nothing and
\* never sets has_results.
C9_MissingDataIsNoError ==
    /\ questions_file # "present" => questions = <<>>
    /\ archetypes_file # "present" => archetypes = <<>>
    /\ (questions_file # "present" \/ archetypes_file # "present") =>
         raised = None /\ pc # "raised"
    /\ (archetypes = <<>> /\ primary_name # Unset) =>
         primary_name = None /\ DOMAIN archetype_data = {}
    /\ archetypes = <<>> => pc # "mc_loop" /\ trial = 0 /\ DOMAIN counts = {}
    /\ (archetypes = <<>> /\ primary_name # Unset /\ pc \in {"mc_return", "idle"}) =>
         /\ DOMAIN probs = {}
         /\ RatEq(stability, Rat(0, 1))
         /\ shadow[1] = "None"
         /\ RatEq(shadow[2], Rat(0, 1))
    /\ (app = "I-Type" /\ (questions = <<>> \/ archetypes = <<>>)) =>
         /\ has_results = FALSE
         /\ primary_name = Unset
         /\ pc \in {"run", "idle"}

\* C9 witness: D-Type shows a result card computed without archetypes.json.
C9_Witness ==
    /\ CardShown
    /\ app = "D-Type"
    /\ archetypes_file = "missing"
    /\ questions_file = "present"
    /\ primary_name = None
    /\ shadow[1] = "None"
    /\ trial = 0
    /\ raised = None

\* C9 witness, second case: I-Type on step 2 without questions.json.
C9_WitnessIType ==
    /\ app = "I-Type"
    /\ questions_file = "unreadable"
    /\ archetypes_file = "present"
    /\ step = 2
    /\ pc = "idle"
    /\ ~has_results

\* C10: logging is optional and isolated.  log_response is called only in
\* I-Type's logging step, only with the logger imported and the consent box
\* ticked, and at most once per Calculate press; however the step goes (no
\* logger, no consent, a call that returns, a call that raises) it leaves the
\* primary archetype, its data, probs, stability, shadow and has_results = True
\* as they were, raises nothing, and goes on to the result card, which shows
\* the same values; after a call that raised the run is at the result card or
\* past it, never ended by the logger's exception.
C10_LoggingIsIsolated ==
    /\ [](log_calls <= 1)
    /\ [](log_outcome = "raised" =>
            /\ pc # "raised"
            /\ has_results
            /\ primary_name \in Keys(archetypes))
    /\ [][ log_calls' > log_calls =>
             /\ app = "I-Type" /\ pc = "mc_return"
             /\ HAS_LOGGER /\ consent
             /\ log_calls = 0 /\ log_calls' = 1 ]_vars
    /\ [][ (app = "I-Type" /\ pc = "mc_return") =>
             /\ pc' = "card"
             /\ has_results /\ has_results'
             /\ log_calls' = (IF HAS_LOGGER /\ consent THEN 1 ELSE 0)
             /\ UNCHANGED <<primary_name, archetype_data, probs, stability, shadow,
                            raised>> ]_vars
    /\ [][ (app = "I-Type" /\ pc = "card") =>
             /\ pc' = "idle"
             /\ has_results /\ has_results'
             /\ UNCHANGED <<primary_name, archetype_data, probs, stability, shadow,
                            log_calls, log_outcome>> ]_vars

\* C10 witness: I-Type shows the result card of a press whose one call of
\* log_response raised.
C10_Witness ==
    /\ CardShown
    /\ app = "I-Type"
    /\ HAS_LOGGER /\ consent
    /\ log_calls = 1
    /\ log_outcome = "raised"
    /\ has_results
    /\ primary_name \in Keys(archetypes)

(***************************************************************************)
(* Claims about the wizard's session state (Spec).                         *)
(***************************************************************************)
\* C13: the wizard has exactly two steps.  step is always 1 or 2; it becomes
\* 2 only by Next pressed on step 1; it becomes 1 only by Back, Reset or
\* Start Over; Calculate (the press that enters monte_carlo_probabilities)
\* and the archetype buttons (the presses whose run ends the event) leave it
\* unchanged.
C13_TwoStepWizard ==
    /\ [](step \in {1, 2})
    /\ [][ (step' = 2 /\ step # 2) => (GoNext /\ step = 1) ]_vars
    /\ [][ (step' = 1 /\ step # 1) => (Back \/ StartOver \/ Reset) ]_vars
    /\ [][ (pc = "idle" /\ pc' \in {"mc_enter", "idle"}) => step' = step ]_vars

\* C13 witness: after Next, Calculate and an archetype button the wizard is
\* still on step 2.
C13_Witness ==
    /\ pc = "idle"
    /\ step = 2
    /\ has_results
    /\ open_archetype \in Keys(archetypes)

\* C13 witness, second case: Back has returned D-Type to step 1 with the
\* results of an earlier Calculate still flagged.
C13_WitnessBack ==
    /\ pc = "idle"
    /\ app = "D-Type"
    /\ step = 1
    /\ has_results

C15_SelectionAlwaysMade ==
    archetypes # <<>> =>
        /\ primary_name # Unset => primary_name \in Keys(archetypes)
        /\ bucket # Unset => bucket[2] \in DOMAIN counts
        /\ raised = None
        /\ pc # "raised"

(***************************************************************************)
(* Claims about the dimensions the apps read (Spec).                       *)
(***************************************************************************)
\* C16: every dimension I-Type reads from the normalised scores is present
\* in them.  After Calculate each of the six radar dimensions is a key of
\* the dict normalize_scores returned, the dimension of every answered
\* question is one of its keys, and drawing the radar chart raises nothing.
C16_RadarDimensionsPresent ==
    (app = "I-Type" /\ primary_name # Unset) =>
        /\ RadarDimensions \subseteq DOMAIN final_scores
        /\ \A i \in DOMAIN answers : answers[i].dimension \in DOMAIN final_scores
        /\ raised # "KeyError"

(***************************************************************************)
(* Claims about the archetype explorer (Spec).                             *)
(***************************************************************************)
\* C17: the explorer's open panel is a toggle over catalog names.
\* open_archetype is always None or a key of the catalog.  The press of an
\* archetype's button (the one event whose run ends where it began, with the
\* page idle) either closes the panel that was open, the pressed name being
\* the open one, or opens a name that was not open; so a second press of the
\* same button closes what the first opened.  Nothing else changes
\* open_archetype except I-Type's Calculate, which sets it to None.
C17_OpenPanelIsToggle ==
    /\ [](open_archetype = None \/ open_archetype \in Keys(archetypes))
    /\ [][ (pc = "idle" /\ pc' = "idle") =>
             /\ has_results
             /\ \/ open_archetype' = None /\ open_archetype \in Keys(archetypes)
                \/ open_archetype' \in Keys(archetypes) /\ open_archetype' # open_archetype
           ]_vars
    /\ [][ open_archetype' # open_archetype =>
             \/ pc = "idle" /\ pc' = "idle"
             \/ app = "I-Type" /\ pc = "idle" /\ pc' = "mc_enter" ]_vars
    /\ [][ (pc = "idle" /\ pc' = "mc_enter") =>
             open_archetype' = (IF app = "I-Type" THEN None ELSE open_archetype) ]_vars

\* C17 witness: D-Type's Calculate was pressed with the panel of the second
\* catalog entry open, and the panel stayed open.
C17_Witness ==
    /\ app = "D-Type"
    /\ pc = "mc_enter"
    /\ Len(archetypes) = 2
    /\ open_archetype = archetypes[2]

\* C17 witness, second case: I-Type shows an open panel.
C17_WitnessIType ==
    /\ app = "I-Type"
    /\ pc = "idle"
    /\ has_results
    /\ open_archetype \in Keys(archetypes)

====
